---- MODULE Spec2Model ----
(***************************************************************************)
(* Integrator6581 (reSIDfp): the single-step fixpoint solver of the MOS    *)
(* 6581 filter integrator.  The C++ `float` is IEEE-754 binary32; every    *)
(* arithmetic operation of the code is modelled by the correctly rounded   *)
(* (round-to-nearest-even) binary32 operation, so that neither rounding    *)
(* nor range is abstracted away.                                           *)
(*                                                                         *)
(* A float is carried as a signed integer whose magnitude is the 31-bit    *)
(* exponent/fraction pattern of the binary32 value and whose sign is the   *)
(* sign of the value (+0 and -0 are both 0).  For non-NaN values the       *)
(* integer order is the float order.                                       *)
(***************************************************************************)
EXTENDS Integers, Sequences, FiniteSets, TLC

\* ------------------------------------------------------------------------
\* binary32 arithmetic (what the compiler emits for float +, -, *, /)
\* ------------------------------------------------------------------------

\* 2^23, the weight of the hidden bit; 2^24 bounds a mantissa.
Hidden == 2^23
MantLim == 2^24

\* The pattern of +infinity (exponent field 255, fraction 0) and the one
\* quiet NaN the model keeps.
Inf == 255 * Hidden
NaN == 255 * Hidden + 2^22

Abs(x) == IF x < 0 THEN -x ELSE x
Max(a, b) == IF a < b THEN b ELSE a
Min(a, b) == IF a < b THEN a ELSE b
Sgn(b) == IF b < 0 THEN -1 ELSE 1

IsNaN(b) == Abs(b) > Inf
IsInf(b) == Abs(b) = Inf

\* Number of significant bits of a natural number below 2^31.
BitLen(n) ==
    IF n >= 2^30 THEN 31
    ELSE CHOOSE k \in 0..30 : n < 2^k /\ (k = 0 \/ n >= 2^(k - 1))

\* Decoding: a finite float is Sgn * Mant * 2^Exp.
EField(b) == Abs(b) \div Hidden
Frac(b) == Abs(b) % Hidden
Mant(b) == IF EField(b) = 0 THEN Frac(b) ELSE Hidden + Frac(b)
Exp(b) == IF EField(b) = 0 THEN -149 ELSE EField(b) - 150

\* Round-to-nearest-even of the natural number m * 2^e (m < 2^31) to
\* binary32, with sign sg.  A caller that folds discarded low bits into
\* bit 0 of m ("sticky") keeps m at 26 significant bits or more.
RoundAt(sg, m, e, k) ==
    IF k >= 32 THEN 0
    ELSE IF k = 31 THEN (IF m > 2^30 THEN sg ELSE 0)
    ELSE LET q0 == IF k <= 0 THEN m * 2^(-k) ELSE m \div 2^k
             r == IF k <= 0 THEN 0 ELSE m % 2^k
             half == IF k <= 0 THEN 1 ELSE 2^(k - 1)
             q == IF r > half \/ (r = half /\ q0 % 2 = 1) THEN q0 + 1 ELSE q0
         IN  IF e + k + 149 >= 255 THEN sg * Inf
             ELSE Min((e + k + 149) * Hidden + q, Inf) * sg

RoundValues(sg, m, e) ==
    IF m = 0 THEN 0
    ELSE CHOOSE r \in {RoundAt(sg, m, e, k)
                       : k \in {Max(BitLen(m) - 24, (-149) - e)}} : TRUE

RoundPack(sg, m, e) ==
    CHOOSE r \in {RoundValues(sg, x, y) : x \in {m}, y \in {e}} : TRUE

\* Conversion of an `int` (here always a small constant) to float.
FromInt(n) == CHOOSE r \in {RoundValues(Sgn(m), Abs(m), 0) : m \in {n}} : TRUE

\* The float m * 2^e, for writing down float literals.
Flt(m, e) == RoundPack(Sgn(m), Abs(m), e)

FNeg(a) == CHOOSE r \in {IF IsNaN(x) THEN NaN ELSE -x : x \in {a}} : TRUE

\* m shifted right by s bits, the bits shifted out OR-ed into bit 0.
ShiftSticky(m, s) ==
    IF s = 0 THEN m
    ELSE IF s >= 25 THEN (IF m = 0 THEN 0 ELSE 1)
    ELSE LET q == m \div 2^s
         IN  IF m % 2^s # 0 /\ q % 2 = 0 THEN q + 1 ELSE q

\* Sum of two finite floats, |a|'s exponent not below |b|'s.
AddOrdered(a, b) ==
    LET d == Exp(a) - Exp(b)
        g == Min(d, 5)
        X == Mant(a) * 2^g
        Y == ShiftSticky(Mant(b), d - g)
        e == Exp(a) - g
    IN  IF Sgn(a) = Sgn(b) THEN RoundPack(Sgn(a), X + Y, e)
        ELSE IF X >= Y THEN RoundPack(Sgn(a), X - Y, e)
        ELSE RoundPack(Sgn(b), Y - X, e)

\* float + float, for operands that are values
AddValues(a, b) ==
    IF IsNaN(a) \/ IsNaN(b) THEN NaN
    ELSE IF IsInf(a) THEN (IF IsInf(b) /\ Sgn(a) # Sgn(b) THEN NaN ELSE a)
    ELSE IF IsInf(b) THEN b
    ELSE IF a = 0 THEN b
    ELSE IF b = 0 THEN a
    ELSE IF Exp(a) >= Exp(b) THEN AddOrdered(a, b) ELSE AddOrdered(b, a)

\* float + float (each operand expression is evaluated once)
FAdd(a, b) == CHOOSE r \in {AddValues(x, y) : x \in {a}, y \in {b}} : TRUE

\* float - float
FSub(a, b) == FAdd(a, FNeg(b))

\* The 48-bit product of two mantissas as <<hi, lo>>, hi * 2^24 + lo.
MantProduct(m1, m2) ==
    LET a1 == m1 \div 4096
        a0 == m1 % 4096
        b1 == m2 \div 4096
        b0 == m2 % 4096
        cross == a1 * b0 + a0 * b1
        low == (cross % 4096) * 4096 + a0 * b0
    IN  <<a1 * b1 + (cross \div 4096) + (low \div MantLim), low % MantLim>>

\* The product hi * 2^24 + lo scaled by 2^e, rounded; t is the number of
\* bits hi can be shifted left within 30 bits.
MulRound(sg, hi, lo, e, t) ==
    IF hi = 0 THEN RoundPack(sg, lo, e)
    ELSE IF t >= 24 THEN RoundPack(sg, hi * MantLim + lo, e)
    ELSE LET q == hi * 2^t + (lo \div 2^(24 - t))
         IN  RoundPack(sg, IF lo % 2^(24 - t) # 0 /\ q % 2 = 0 THEN q + 1 ELSE q,
                       e + (24 - t))

\* float * float, for operands that are values
MulValues(a, b) ==
    IF IsNaN(a) \/ IsNaN(b) THEN NaN
    ELSE IF IsInf(a) \/ IsInf(b)
         THEN (IF a = 0 \/ b = 0 THEN NaN ELSE Sgn(a) * Sgn(b) * Inf)
    ELSE IF a = 0 \/ b = 0 THEN 0
    ELSE CHOOSE r \in
            UNION {{MulRound(Sgn(a) * Sgn(b), p[1], p[2], Exp(a) + Exp(b), t)
                    : t \in {30 - BitLen(p[1])}}
                   : p \in {MantProduct(Mant(a), Mant(b))}} : TRUE

\* float * float (each operand expression is evaluated once)
FMul(a, b) == CHOOSE r \in {MulValues(x, y) : x \in {a}, y \in {b}} : TRUE

\* float / float for a divisor that is a power of two (the only divisors
\* of the code are 2.f and 65536.f): the quotient x / 2^k and the product
\* x * 2^-k are the same real number, hence round to the same float.
Reciprocal(b) == (254 - EField(b)) * Hidden * Sgn(b)
FDiv(a, b) == FMul(a, Reciprocal(b))

\* float < float, float >= float (false when either side is NaN)
FLt(a, b) == \E x \in {a} : \E y \in {b} : ~IsNaN(x) /\ ~IsNaN(y) /\ x < y
FGe(a, b) == \E x \in {a} : \E y \in {b} : ~IsNaN(x) /\ ~IsNaN(y) /\ x >= y

\* ------------------------------------------------------------------------
\* Construction parameters: the calibrations the model is run with
\* ------------------------------------------------------------------------

\* "identity": kVddt = 1.0, n_snake = 1.0 and the three tables the identity
\* function (the golden configuration).  "calibrated": a 16-bit scaled
\* calibration in the shape of the chip's: kVddt = 65535.0, n_snake = 0.5,
\* array tables over the index range [0, 65536).
Cfgs == {"identity", "calibrated"}

\* const float kVddt
kVddt(c) == IF c = "identity" THEN FromInt(1) ELSE FromInt(65535)

\* const float n_snake
n_snake(c) == IF c = "identity" THEN FromInt(1) ELSE Flt(1, -1)

\* (1 << 16) and (1 << 15) as the code writes them
Shift16 == 2^16
Shift15 == 2^15

\* ------------------------------------------------------------------------
\* LUT::output for the three tables.  Each yields the SET of values the
\* call can return: one value inside the table's declared domain; outside
\* it an array-backed table is read out of bounds, and the call can return
\* anything (two representative values stand for "anything").
\* ------------------------------------------------------------------------

\* largest integer not above a float in [0, 2^24)
FloorOf(x) ==
    IF Exp(x) >= 0 THEN Mant(x) * 2^Exp(x)
    ELSE IF Exp(x) <= -24 THEN 0
    ELSE Mant(x) \div 2^(-Exp(x))
Floor(x) == CHOOSE n \in {FloorOf(y) : y \in {x}} : TRUE

\* integer square root of an index below 2^16
RootOf(n) == CHOOSE r \in 0..255 : r * r <= n /\ n < (r + 1) * (r + 1)
ISqrt(n) == CHOOSE r \in {RootOf(m) : m \in {n}} : TRUE

\* the index range of an array-backed table
InDomain(c, x) == c = "identity" \/ (FGe(x, 0) /\ FLt(x, FromInt(Shift16)))

OutOfBounds == {0, FromInt(70000)}

\* gate voltage table: kVddt - sqrt(index << 16), stored per integer index
vcr_kVg(c, x) ==
    IF c = "identity" THEN {x}
    ELSE IF ~InDomain(c, x) THEN OutOfBounds
    ELSE {FSub(kVddt(c), FromInt(256 * ISqrt(Floor(x))))}

\* EKV current term: quadratic in the overdrive voltage
vcr_n_Ids_term(c, x) ==
    IF c = "identity" THEN {x}
    ELSE IF ~InDomain(c, x) THEN OutOfBounds
    ELSE {FDiv(FDiv(FMul(x, x), FromInt(Shift16)), FromInt(2))}

\* inverse op-amp transfer: increasing, range [8192, 57344) inside the
\* operating region
opamp_rev(c, x) ==
    IF c = "identity" THEN {x}
    ELSE IF ~InDomain(c, x) THEN OutOfBounds
    ELSE {FAdd(FromInt(8192), FMul(x, Flt(3, -2)))}

\* Whether every in-domain output of the op-amp table lies below kVddt.
OpampBelowVddt(c) == c = "calibrated"

\* ------------------------------------------------------------------------
\* Integrator6581::solve, statement by statement
\* ------------------------------------------------------------------------

\* const float Vgst = kVddt - vx;  const float Vgdt = kVddt - vi;
Vgst(c, x) == FSub(kVddt(c), x)
Vgdt(c, vi) == FSub(kVddt(c), vi)

\* const float Vgst_2 = Vgst * Vgst;  const float Vgdt_2 = Vgdt * Vgdt;
Vgst_2(c, x) == FMul(Vgst(c, x), Vgst(c, x))
Vgdt_2(c, vi) == FMul(Vgdt(c, vi), Vgdt(c, vi))

\* faulty variant: the two squares subtracted the other way round
n_I_snake_Swapped(c, x, vi) == FMul(n_snake(c), FSub(Vgdt_2(c, vi), Vgst_2(c, x)))

\* const float n_I_snake = n_snake * (Vgst_2 - Vgdt_2);
n_I_snake(c, x, vi) == FMul(n_snake(c), FSub(Vgst_2(c, x), Vgdt_2(c, vi)))

\* the argument of vcr_kVg->output: ((Vddt_Vw_2 + Vgdt_2) / 2.f) / 65536.f
kVgIndex(c, w2, vi) ==
    FDiv(FDiv(FAdd(w2, Vgdt_2(c, vi)), FromInt(2)), FromInt(65536))

\* faulty variant: the overdrive left unclamped
Vgs_Unclamped(x, kVg) == FSub(kVg, x)

\* const float Vgs = (vx < kVg) ? kVg - vx : 0.;   (and Vgd, with vi)
Vgs(x, kVg) == IF FLt(x, kVg) THEN FSub(kVg, x) ELSE 0
Vgd(vi, kVg) == IF FLt(vi, kVg) THEN FSub(kVg, vi) ELSE 0

\* faulty variant: the two table terms added
n_I_vcr_Sum(tVgs, tVgd) == FAdd(tVgs, tVgd)

\* const float n_I_vcr = output(Vgs) - output(Vgd);
n_I_vcr(tVgs, tVgd) == FSub(tVgs, tVgd)

\* faulty variant: the currents taken off the charge (vc -= ...)
NewVc_Minus(c0, snake, vcr) == FSub(c0, FAdd(FDiv(snake, FromInt(65536)), vcr))

\* vc += (n_I_snake / 65536.f) + n_I_vcr;
NewVc(c0, snake, vcr) == FAdd(c0, FAdd(FDiv(snake, FromInt(65536)), vcr))

\* faulty variant: vc not halved before the re-bias
Tmp_NoHalving(c1) == FAdd(c1, FromInt(Shift15))

\* const float tmp = (vc / 2.f) + (1 << 15);
Tmp(c1) == FAdd(FDiv(c1, FromInt(2)), FromInt(Shift15))

\* return vx - vc;
Vo(x1, c1) == FSub(x1, c1)

\* The record of one call: how far it got ("done", or the assertion that
\* stopped it; "run" while it executes), the inputs it read, every
\* intermediate it computed (0 for one it never reached), the state it
\* left and the value it returned.  `defined` is FALSE when a table was
\* read outside its domain.
NoCall ==
    [stage |-> "none", vi |-> 0, vx0 |-> 0, vc0 |-> 0, w2 |-> 0, kVg |-> 0,
     Vgs |-> 0, Vgd |-> 0, snake |-> 0, vcr |-> 0, tmp |-> 0,
     vx |-> 0, vc |-> 0, ret |-> 0, defined |-> TRUE]

Entry(s, vi) ==
    [NoCall EXCEPT !.stage = "run", !.vi = vi, !.vx0 = s.vx, !.vc0 = s.vc,
                   !.w2 = s.Vddt_Vw_2, !.vx = s.vx, !.vc = s.vc]

\* assert(vx < kVddt);  assert(vi < kVddt);
EntryChecks(c, r) ==
    IF ~FLt(r.vx0, kVddt(c)) THEN {[r EXCEPT !.stage = "assert_vx"]}
    ELSE IF ~FLt(r.vi, kVddt(c)) THEN {[r EXCEPT !.stage = "assert_vi"]}
    ELSE {r}

\* const float kVg = vcr_kVg->output(...);
GateLookup(c, r) ==
    IF r.stage # "run" THEN {r}
    ELSE UNION {{[r EXCEPT !.kVg = g, !.defined = InDomain(c, idx)]
                 : g \in vcr_kVg(c, idx)}
                : idx \in {kVgIndex(c, r.w2, r.vi)}}

\* Vgs, Vgd and their assertions: assert(Vgs < (1 << 16)); assert(Vgd < (1 << 16));
VcrVoltages(c, r) ==
    IF r.stage # "run" THEN {r}
    ELSE UNION {IF ~FLt(r1.Vgs, FromInt(Shift16))
                THEN {[r1 EXCEPT !.stage = "assert_Vgs"]}
                ELSE IF ~FLt(r1.Vgd, FromInt(Shift16))
                THEN {[r1 EXCEPT !.stage = "assert_Vgd"]}
                ELSE {r1}
                : r1 \in {[r EXCEPT !.Vgs = Vgs(r.vx0, r.kVg),
                                    !.Vgd = Vgd(r.vi, r.kVg)]}}

\* the two currents and the charge update: vc += ...
Integrate(c, r) ==
    IF r.stage # "run" THEN {r}
    ELSE UNION {{[r1 EXCEPT !.vc = NewVc(r.vc0, r1.snake, r1.vcr)]
                 : r1 \in {[r EXCEPT !.snake = n_I_snake(c, r.vx0, r.vi),
                                     !.vcr = n_I_vcr(t1, t2)]}}
                : t1 \in vcr_n_Ids_term(c, r.Vgs),
                  t2 \in vcr_n_Ids_term(c, r.Vgd)}

\* tmp, assert(tmp < (1 << 16)), the op-amp lookup and the return
OpampStep(c, r) ==
    IF r.stage # "run" THEN {r}
    ELSE UNION {IF ~FLt(r1.tmp, FromInt(Shift16))
                THEN {[r1 EXCEPT !.stage = "assert_tmp"]}
                ELSE {[r1 EXCEPT !.stage = "done", !.vx = x1,
                                 !.ret = Vo(x1, r1.vc),
                                 !.defined = r1.defined /\ InDomain(c, r1.tmp)]
                      : x1 \in opamp_rev(c, r1.tmp)}
                : r1 \in {[r EXCEPT !.tmp = Tmp(r.vc)]}}

\* float Integrator6581::solve(float vi) const : every outcome of one call
\* from the members s = [Vddt_Vw_2, vx, vc]
solve(c, s, vi) ==
    UNION {OpampStep(c, r4) : r4 \in
      UNION {Integrate(c, r3) : r3 \in
        UNION {VcrVoltages(c, r2) : r2 \in
          UNION {GateLookup(c, r1) : r1 \in EntryChecks(c, Entry(s, vi))}}}}

\* faulty variants: setVw also restarting the state; setVw adding to the
\* cached term instead of replacing it
setVw_ResetsState(c, s, Vw) ==
    [Vddt_Vw_2 |-> FMul(FSub(kVddt(c), Vw), FSub(kVddt(c), Vw)), vx |-> 0, vc |-> 0]
setVw_Accumulates(c, s, Vw) ==
    [s EXCEPT !.Vddt_Vw_2 =
        FAdd(s.Vddt_Vw_2, FMul(FSub(kVddt(c), Vw), FSub(kVddt(c), Vw)))]

\* void setVw(float Vw) { Vddt_Vw_2 = (kVddt - Vw) * (kVddt - Vw); }
setVw(c, s, Vw) ==
    [s EXCEPT !.Vddt_Vw_2 = FMul(FSub(kVddt(c), Vw), FSub(kVddt(c), Vw))]

\* the constructor's member initialisers
Construct(c) == [Vddt_Vw_2 |-> 0, vx |-> 0, vc |-> 0]

\* faulty variants: the returned vo stored where vx belongs; vx not
\* stored at all
Commit_StoresVo(s, r) == [s EXCEPT !.vx = r.ret, !.vc = r.vc]
Commit_KeepsVx(s, r) == [s EXCEPT !.vc = r.vc]

\* solve is a const method whose only writable members are the two
\* `mutable` floats: committing a call's outcome r to the instance
Commit(s, r) == [s EXCEPT !.vx = r.vx, !.vc = r.vc]

\* ------------------------------------------------------------------------
\* The state machine: one Integrator6581 and its caller
\* ------------------------------------------------------------------------

\* Calls recorded per run, and returned values kept (the most recent ones).
MaxCalls == 4
RetsKept == 2

VARIABLES
    cfg,        \* the construction parameters (tables, kVddt, n_snake)
    Vddt_Vw_2,  \* float Vddt_Vw_2
    vx,         \* mutable float vx
    vc,         \* mutable float vc
    status,     \* "ok", or the assertion that aborted the program
    calls,      \* the calls made so far, oldest first (the first MaxCalls)
    rets,       \* the values solve returned, oldest first (the last RetsKept)
    last,       \* the record of the most recent solve call
    ub,         \* a table has been read outside its domain
    mirror      \* a second instance built from the same parameters

vars == <<cfg, Vddt_Vw_2, vx, vc, status, calls, rets, last, ub, mirror>>

St == [Vddt_Vw_2 |-> Vddt_Vw_2, vx |-> vx, vc |-> vc]

\* the inputs the caller presents: filter input voltages and control
\* voltages, per calibration; 2.0 resp. 65535.0 are not below kVddt
ViSet(c) ==
    IF c = "identity"
    THEN {Flt(13421773, -26), Flt(1, -1), FromInt(-45000), FromInt(-50000),
          FromInt(2)}
    ELSE {FromInt(20000), FromInt(30000), FromInt(30016), FromInt(4096),
          FromInt(65000), FromInt(65535)}

VwSet(c) ==
    IF c = "identity" THEN {Flt(1, -1)}
    ELSE {FromInt(20000), FromInt(40000)}

Keep(seq) == IF Len(seq) > RetsKept THEN Tail(seq) ELSE seq
Record(seq, e) == IF Len(seq) < MaxCalls THEN Append(seq, e) ELSE seq
StatusOf(r) == IF r.stage = "done" THEN "ok" ELSE r.stage

\* the second instance: its members, the record of its latest solve, the
\* number of solve calls made on it, and what the pair is used for
MirrorIdle(c) ==
    [s |-> Construct(c), last |-> NoCall, n |-> 0, phase |-> "idle"]

InitInstance ==
    /\ cfg \in Cfgs
    /\ Vddt_Vw_2 = Construct(cfg).Vddt_Vw_2
    /\ vx = Construct(cfg).vx
    /\ vc = Construct(cfg).vc
    /\ status = "ok"
    /\ calls = <<>>
    /\ rets = <<>>
    /\ last = NoCall
    /\ ub = FALSE

Init == InitInstance /\ mirror = MirrorIdle(cfg)

\* the instance after setVw(Vw)
DoSetVw(Vw) ==
    LET s1 == setVw(cfg, St, Vw)
    IN  /\ Vddt_Vw_2' = s1.Vddt_Vw_2
        /\ vx' = s1.vx
        /\ vc' = s1.vc
        /\ calls' = Record(calls, [op |-> "setVw", arg |-> Vw])
        /\ UNCHANGED <<cfg, status, rets, last, ub>>

\* the instance after solve(vi) took outcome r
DoSolve(vi, r) ==
    LET s1 == Commit(St, r)
    IN  /\ Vddt_Vw_2' = s1.Vddt_Vw_2
        /\ vx' = s1.vx
        /\ vc' = s1.vc
        /\ status' = StatusOf(r)
        /\ rets' = IF r.stage = "done" THEN Keep(Append(rets, r.ret)) ELSE rets
        /\ last' = r
        /\ ub' = (ub \/ ~r.defined)
        /\ calls' = Record(calls, [op |-> "solve", arg |-> vi])
        /\ UNCHANGED cfg

SetVw ==
    /\ status = "ok"
    /\ Len(calls) < MaxCalls
    /\ \E Vw \in VwSet(cfg) : DoSetVw(Vw)
    /\ UNCHANGED mirror

Solve ==
    /\ status = "ok"
    /\ Len(calls) < MaxCalls
    /\ \E vi \in ViSet(cfg) : \E r \in solve(cfg, St, vi) : DoSolve(vi, r)
    /\ UNCHANGED mirror

Next == SetVw \/ Solve

Spec == Init /\ [][Next]_vars

\* ------------------------------------------------------------------------
\* The caller holding its input: after an optional setVw, solve is called
\* once per sample tick with one constant vi, for as long as the program
\* runs.
\* ------------------------------------------------------------------------

HoldIn == IF last.stage = "none" THEN ViSet(cfg) ELSE {last.vi}

HoldSetVw ==
    /\ status = "ok"
    /\ calls = <<>>
    /\ \E Vw \in VwSet(cfg) : DoSetVw(Vw)
    /\ UNCHANGED mirror

HoldSolve ==
    /\ status = "ok"
    /\ \E vi \in HoldIn : \E r \in solve(cfg, St, vi) : DoSolve(vi, r)
    /\ UNCHANGED mirror

NextHold == HoldSetVw \/ HoldSolve

\* The sample loop never stops calling solve while the program is alive.
SpecHold == Init /\ [][NextHold]_vars /\ WF_vars(HoldSolve)

\* ------------------------------------------------------------------------
\* Two instances with the roles of their terminals exchanged: both are
\* built from the same parameters, given the same Vw and driven to some
\* state; then each is stepped with the other's stored vx as its input.
\* ------------------------------------------------------------------------

\* solve calls made on each instance before the exchange step
MaxDrive == 1

NSolves == Cardinality({i \in 1..Len(calls) : calls[i].op = "solve"})

InitSym == InitInstance /\ mirror = [MirrorIdle(cfg) EXCEPT !.phase = "drive"]

MirrorAlive == mirror.last.stage \in {"none", "done"}

SymSetVw ==
    /\ status = "ok"
    /\ mirror.phase = "drive"
    /\ calls = <<>>
    /\ mirror.n = 0
    /\ \E Vw \in VwSet(cfg) :
          /\ DoSetVw(Vw)
          /\ mirror' = [mirror EXCEPT !.s = setVw(cfg, mirror.s, Vw)]

SymDriveMain ==
    /\ status = "ok"
    /\ mirror.phase = "drive"
    /\ NSolves < MaxDrive
    /\ \E vi \in ViSet(cfg) : \E r \in solve(cfg, St, vi) : DoSolve(vi, r)
    /\ UNCHANGED mirror

SymDriveMirror ==
    /\ MirrorAlive
    /\ mirror.phase = "drive"
    /\ mirror.n < MaxDrive
    /\ \E vi \in ViSet(cfg) : \E m \in solve(cfg, mirror.s, vi) :
          mirror' = [mirror EXCEPT !.s = Commit(mirror.s, m), !.last = m,
                                   !.n = mirror.n + 1]
    /\ UNCHANGED <<cfg, Vddt_Vw_2, vx, vc, status, calls, rets, last, ub>>

SymExchange ==
    /\ status = "ok"
    /\ MirrorAlive
    /\ mirror.phase = "drive"
    /\ \E r \in solve(cfg, St, mirror.s.vx) : \E m \in solve(cfg, mirror.s, vx) :
          /\ DoSolve(mirror.s.vx, r)
          /\ mirror' = [s |-> Commit(mirror.s, m), last |-> m,
                        n |-> mirror.n + 1, phase |-> "exchanged"]

NextSym == SymSetVw \/ SymDriveMain \/ SymDriveMirror \/ SymExchange

SpecSym == InitSym /\ [][NextSym]_vars

\* ------------------------------------------------------------------------
\* Vocabulary of the properties
\* ------------------------------------------------------------------------

Square(x) == FMul(x, x)
ClampedDiff(a, b) == CHOOSE r \in {IF d > 0 THEN d ELSE 0 : d \in {FSub(a, b)}} : TRUE
TwoPow16 == FromInt(65536)
TwoPow15 == FromInt(32768)

\* the latest recorded call, and whether this step made a call of a kind
LastCall == calls[Len(calls)]
CallStep(op) ==
    /\ Len(calls') = Len(calls) + 1
    /\ calls'[Len(calls')].op = op

\* the indices of the setVw calls among the first k calls
SetVwAt(k) == {i \in 1..k : calls[i].op = "setVw"}
MaxOf(S) == CHOOSE i \in S : \A j \in S : j <= i
\* Vddt_Vw_2 as the most recent setVw among the first k calls left it
CachedAfter(k) ==
    IF SetVwAt(k) = {} THEN 0
    ELSE Square(FSub(kVddt(cfg), calls[MaxOf(SetVwAt(k))].arg))
SolveAt == {i \in 1..Len(calls) : calls[i].op = "solve"}

\* C1: a completed solve(vi) leaves vc' = vc + (n_snake*((kVddt-vx)^2 -
\* (kVddt-vi)^2)/65536 + (T(Vgs) - T(Vgd))) with kVg looked up at
\* ((Vddt_Vw_2 + (kVddt-vi)^2)/2)/65536, Vgs = max(kVg - vx, 0) and
\* Vgd = max(kVg - vi, 0) taken from the vx stored before the call, leaves
\* vx' = opamp_rev(vc'/2 + 32768) and returns vx' - vc'; with the identity
\* tables, kVddt = n_snake = 1, setVw(0.5) then solve(0.2) returns 32768.0,
\* the float nearest the hand-computed 32767.99998771..., and leaves
\* vc = 13505658 * 2^-40 (1.2283324e-5).
C1_SolveSteps ==
    [][(CallStep("solve") /\ last'.stage = "done") =>
        LET vi == calls'[Len(calls')].arg
            dt2 == Square(FSub(kVddt(cfg), vi))
            idx == FDiv(FDiv(FAdd(Vddt_Vw_2, dt2), FromInt(2)), TwoPow16)
        IN  /\ \E g \in vcr_kVg(cfg, idx) :
                \E t1 \in vcr_n_Ids_term(cfg, ClampedDiff(g, vx)) :
                  \E t2 \in vcr_n_Ids_term(cfg, ClampedDiff(g, vi)) :
                    /\ vc' = FAdd(vc, FAdd(FDiv(FMul(n_snake(cfg),
                                FSub(Square(FSub(kVddt(cfg), vx)), dt2)),
                                TwoPow16), FSub(t1, t2)))
                    /\ vx' \in opamp_rev(cfg, FAdd(FDiv(vc', FromInt(2)), TwoPow15))
                    /\ rets'[Len(rets')] = FSub(vx', vc')
            /\ (cfg = "identity" /\ calls' = <<[op |-> "setVw", arg |-> Flt(1, -1)],
                                               [op |-> "solve", arg |-> Flt(13421773, -26)]>>)
                 => /\ rets' = <<TwoPow15>>
                    /\ vc' = Flt(13505658, -40)
                    /\ vx' = TwoPow15
      ]_vars

C1_Witness ==
    /\ cfg = "identity"
    /\ calls = <<[op |-> "setVw", arg |-> Flt(1, -1)],
                 [op |-> "solve", arg |-> Flt(13421773, -26)]>>
    /\ last.stage = "done"
    /\ rets = <<TwoPow15>>

C4_SetVwFrame ==
    [][CallStep("setVw") =>
        /\ vx' = vx
        /\ vc' = vc
        /\ cfg' = cfg
        /\ rets' = rets
        /\ last' = last
        /\ status' = status
      ]_vars

C4_Witness ==
    /\ Len(calls) >= 2
    /\ LastCall.op = "setVw"
    /\ calls[Len(calls) - 1].op = "solve"
    /\ vx # 0
    /\ vc # 0
    /\ Vddt_Vw_2 # last.w2

\* C5: Vddt_Vw_2 is (kVddt - Vw)^2 for the most recent setVw, 0 if there
\* was none, whatever solve calls were made; and that is the value the
\* latest solve call read.
C5_CachedVw ==
    /\ Vddt_Vw_2 = CachedAfter(Len(calls))
    /\ SolveAt # {} => last.w2 = CachedAfter(MaxOf(SolveAt) - 1)

C5_Witness ==
    /\ Len(calls) >= 4
    /\ calls[1].op = "setVw"
    /\ calls[2].op = "solve"
    /\ calls[3].op = "setVw"
    /\ calls[3].arg # calls[1].arg
    /\ calls[4].op = "solve"
    /\ last.stage = "done"

C10_VxIsOpampOfVc ==
    /\ (status = "ok" /\ SolveAt # {})
          => vx \in opamp_rev(cfg, FAdd(FDiv(vc, FromInt(2)), TwoPow15))
    /\ Cardinality(SolveAt) >= 2
          => last.vx0 \in opamp_rev(cfg, FAdd(FDiv(last.vc0, FromInt(2)), TwoPow15))

C10_Witness ==
    /\ Len(calls) >= 4
    /\ calls[1].op = "solve"
    /\ calls[2].op = "setVw"
    /\ calls[3].op = "solve"
    /\ calls[4].op = "setVw"
    /\ status = "ok"
    /\ vx # last.vx0
    /\ vc # last.vc0

\* ------------------------------------------------------------------------
\* The held input (SpecHold)
\* ------------------------------------------------------------------------

\* the tolerance of "settled", 1/16 of one 16-bit step
Tol == Flt(1, -4)

\* the two most recent returned values differ by no more than Tol
Settled ==
    /\ Len(rets) >= 2
    /\ Abs(FSub(rets[Len(rets)], rets[Len(rets) - 1])) <= Tol

\* the latest call left vx and vc as they were
AtFixedPoint ==
    /\ last.stage = "done"
    /\ status = "ok"
    /\ last.vx0 = vx
    /\ last.vc0 = vc

\* the calibrated tables with a held input inside the op-amp table's
\* output range [8192, 57344)
InsideRegion ==
    /\ cfg = "calibrated"
    /\ last.stage # "none" => (FGe(last.vi, FromInt(8192)) /\ FLt(last.vi, FromInt(57344)))

BothComputed ==
    /\ mirror.phase = "exchanged"
    /\ last.stage \in {"done", "assert_tmp"}
    /\ mirror.last.stage \in {"done", "assert_tmp"}

\* the change a call applies to vc: n_I_snake / 65536 + n_I_vcr
Applied(r) == FAdd(FDiv(r.snake, TwoPow16), r.vcr)

\* C8 as claimed: exchanging vx and vi negates the currents, so the change
\* applied to vc in one instance is minus the change in the other.
C8_Mirror ==
    BothComputed =>
        /\ last.snake = FNeg(mirror.last.snake)
        /\ last.vcr = FNeg(mirror.last.vcr)
        /\ Applied(last) = FNeg(Applied(mirror.last))

\* C8 as amended: the exchange negates the snake current exactly; it
\* negates the VCR current, and with it the change applied to vc, when
\* both calls look up the same gate voltage kVg (kVg is looked up from
\* the input vi alone, so in general the two calls differ).
C8_MirrorGivenSameGate ==
    BothComputed =>
        /\ last.vi = mirror.last.vx0
        /\ mirror.last.vi = last.vx0
        /\ last.snake = FNeg(mirror.last.snake)
        /\ (last.kVg = mirror.last.kVg) =>
              /\ last.Vgs = mirror.last.Vgd
              /\ last.Vgd = mirror.last.Vgs
              /\ last.vcr = FNeg(mirror.last.vcr)
              /\ Applied(last) = FNeg(Applied(mirror.last))

C8_Witness ==
    /\ BothComputed
    /\ last.kVg = mirror.last.kVg
    /\ last.vx0 # last.vi
    /\ last.snake # 0
    /\ last.vcr # 0
    /\ last.Vgs # 0
    /\ last.Vgd # 0

====
